---- MODULE Spec2Model ----
(***************************************************************************)
(* Model of the agent-configuration editor of bleachAgentBuilder:          *)
(*   - the AgentConfig component (agent-config.tsx): the configuration     *)
(*     held in memory, the editing state, the deferred selection timers,   *)
(*     the save and download calls in flight;                              *)
(*   - the remote configuration store behind fetchAgentConfig,             *)
(*     updateAgent and updateTool;                                         *)
(*   - the integrity check of a configuration (section 4.1 of the spec).   *)
(*                                                                         *)
(* A nullable JavaScript value is a sequence of length at most one:        *)
(* <<>> is null and <<v>> is the value v.  A React state update made in a  *)
(* handler is visible to the next event (React flushes the updates of a    *)
(* discrete event before it handles the next one); a timer callback or the *)
(* continuation of an await reads the values its closure captured when the *)
(* handler ran, so those values are kept with the pending timer or call.   *)
(***************************************************************************)
EXTENDS Integers, Sequences, FiniteSets, TLC

VARIABLES
    store,            \* the remote store's configuration
    config,           \* useState<AgentProjectConfig | null>  (<<>> is null)
    loading,          \* useState(true)
    editingState,     \* useState<EditingState>
    saving,           \* useState(false)
    downloading,      \* useState(false)
    timers,           \* pending setTimeout callbacks of handleNodeClick, oldest first
    pendingSaves,     \* updateAgent / updateTool calls in flight, with their closures
    pendingDownloads, \* generateAndDownload calls in flight
    last,             \* the handler step taken last (history variable)
    ciInput,          \* input of the integrity check under test
    ciResult,         \* <<>> before the check ran, <<violations>> after
    gInput,           \* the configuration generateGraph is applied to
    gResult,          \* <<>> before generateGraph ran, <<[nodes, edges]>> after
    gClick,           \* <<>> or the node clicked last with what onNodeClick was handed
    isVisible,        \* AppPreview: the isVisible prop (Home's showPreview)
    appState,         \* AppPreview: useState<AppState>
    simulating,       \* AppPreview: simulateAgentBuilding was started
    settleTimers,     \* AppPreview: pending setTimeout(..., 500) callbacks
    previewDownloading,  \* AppPreview: useState(false) of downloading
    previewDownloads, \* AppPreview: handleDownloadCode calls in flight
    reports100,       \* how often the progress source reported 100 (history)
    completions,      \* how often Building became Complete (history)
    previewLast,      \* the step of AppPreview taken last (history)
    chatMessages,     \* ChatInterface: the roles of the messages shown
    chatLoading,      \* ChatInterface: useState(true) of isLoading
    homeRenders,      \* how often Home rendered the chat view: each render
                      \* makes a new handleFirstResponse function
    effectRanWith,    \* the render whose onFirstResponse the effect last ran with
    pendingInitial,   \* simulateAIResponse(initialMessage) calls in flight
    initialRequested, \* how often the initial response was requested (history)
    firstResponseCalls \* how often onFirstResponse was called (history)

vars == <<store, config, loading, editingState, saving, downloading, timers,
          pendingSaves, pendingDownloads, last, ciInput, ciResult,
          gInput, gResult, gClick, isVisible, appState, simulating, settleTimers,
          previewDownloading, previewDownloads, reports100, completions,
          previewLast, chatMessages, chatLoading, homeRenders, effectRanWith,
          pendingInitial, initialRequested, firstResponseCalls>>

sessionVars == <<store, config, loading, editingState, saving, downloading,
                 timers, pendingSaves, pendingDownloads, last>>

integrityVars == <<ciInput, ciResult>>

graphVars == <<gInput, gResult, gClick>>

previewVars == <<isVisible, appState, simulating, settleTimers, previewDownloading,
                 previewDownloads, reports100, completions, previewLast>>

chatVars == <<chatMessages, chatLoading, homeRenders, effectRanWith, pendingInitial,
              initialRequested, firstResponseCalls>>

\* What a step of the editing session leaves alone.
outsideSession == <<integrityVars, graphVars, previewVars, chatVars>>

-----------------------------------------------------------------------------
(* Bounds *)

\* Pending deferred selections (setTimeout callbacks) at any one time.
MaxTimers == 2

\* Longest tools / sub_agents list of an agent given to the integrity check
\* and to generateGraph.
MaxRefs == 2

\* How often the progress source reports 100.
MaxReports100 == 2

-----------------------------------------------------------------------------
(* Values *)

NULL == "null"

\* Text a user can type into a field of the side panel.
TextValues == {"p", "q"}

\* AgentConfig: the fields the side panel shows.
Agent(name, description, tools, sub_agents) ==
    [name |-> name, description |-> description,
     tools |-> tools, sub_agents |-> sub_agents]

\* ToolConfig: the fields the side panel shows.
Tool(name, description, type) ==
    [name |-> name, description |-> description, type |-> type]

\* AgentProjectConfig: the fields the editor and the graph read.
ProjectConfig(main_agent, agents, tools) ==
    [main_agent |-> main_agent, agents |-> agents, tools |-> tools]

\* A configuration whose references all resolve.
ValidConfig ==
    ProjectConfig("a",
        [n \in {"a", "b"} |->
            IF n = "a" THEN Agent("a", "p", <<"t">>, <<"b">>)
                       ELSE Agent("b", "p", <<>>, <<>>)],
        [n \in {"t"} |-> Tool("t", "p", "builtin")])

\* A configuration in which agent b lists a sub-agent that is no key of agents.
DanglingConfig ==
    ProjectConfig("a",
        [n \in {"a", "b"} |->
            IF n = "a" THEN Agent("a", "p", <<"t">>, <<"b">>)
                       ELSE Agent("b", "p", <<>>, <<"ghost">>)],
        [n \in {"t"} |-> Tool("t", "p", "builtin")])

\* What the store may hold when the session starts.
StoreConfigs == {ValidConfig, DanglingConfig}

-----------------------------------------------------------------------------
(* Helpers *)

\* The spread as it would be if the target were dropped.
SpreadUpdatesOnly(target, updates) == updates

\* { ...target, ...updates }: the keys of both, the value of updates where it
\* has the key.
Spread(target, updates) ==
    [f \in (DOMAIN target) \cup (DOMAIN updates) |->
        IF f \in DOMAIN updates THEN updates[f] ELSE target[f]]

\* { ...map, [key]: value }
SetEntry(map, key, value) ==
    [k \in (DOMAIN map) \cup {key} |-> IF k = key THEN value ELSE map[k]]

\* The sequence s without its i-th element.
RemoveAt(s, i) == SubSeq(s, 1, i - 1) \o SubSeq(s, i + 1, Len(s))

\* The cleared editing state: { type: null, id: null, data: null }.
NoEditing == [type |-> NULL, id |-> NULL, data |-> <<>>]

\* The history record of a step that resolves no save.
Did(op) == [op |-> op, save |-> <<>>]

\* The history record of a step that resolves the save call sv.
DidSave(op, sv) == [op |-> op, save |-> <<sv>>]

-----------------------------------------------------------------------------
(* The remote store (lib/agent-api): it holds one configuration, answers    *)
(* fetchAgentConfig with it, and replaces the full entity stored under a    *)
(* name when an update succeeds.                                            *)

StoreUpdate(st, sv) ==
    IF sv.type = "agent"
    THEN [st EXCEPT !.agents = SetEntry(st.agents, sv.id, sv.data)]
    ELSE [st EXCEPT !.tools = SetEntry(st.tools, sv.id, sv.data)]

-----------------------------------------------------------------------------
(* What the component renders *)

\* The graph and the header are rendered once loading is over and a
\* configuration is held.
UiRendered == ~loading /\ config # <<>>

\* The side panel (fields, Save, Cancel, close button) is rendered while the
\* editing state holds data.
PanelRendered == UiRendered /\ editingState.data # <<>>

\* The Save button as it would be without its disabled attribute.
SaveButtonAlwaysEnabled == TRUE

\* <Button onClick={handleSave} disabled={saving}>
SaveButtonEnabled == ~saving

\* <Button variant="outline" onClick={handleCancel}> and the close button:
\* neither has a disabled attribute.
CancelButtonEnabled == TRUE

\* <Button onClick={handleDownloadCode} disabled={downloading}>
DownloadButtonEnabled == ~downloading

\* The nodes of the displayed graph, as (nodeId, nodeType) pairs handed to
\* onNodeClick: one per agent and one per tool of the configuration.
ClickableNodes(cfg) ==
    {<<n, "agent">> : n \in DOMAIN cfg.agents} \cup
    {<<n, "tool">> : n \in DOMAIN cfg.tools}

\* The partial updates the inputs of the side panel pass to
\* updateEditingData.  Every input passes a one-field update of a text
\* field; the Description input, which agents and tools both have, stands
\* for them.
FieldUpdates == {[description |-> v] : v \in TextValues}

-----------------------------------------------------------------------------
(* The parts of the state a specification does not exercise stay at rest. *)

\* useState<AppState>({ isBuilding: true, isComplete: false, progress: 0 })
InitialAppState == [isBuilding |-> TRUE, isComplete |-> FALSE, progress |-> 0]

\* The history record of a step of AppPreview, with the value reported.
PreviewDid(op, value) == [op |-> op, value |-> value]

\* generateGraph has no input and has not run.
GraphIdle ==
    /\ gInput = [main_agent |-> "root", agents |-> <<>>, tools |-> <<>>]
    /\ gResult = <<>>
    /\ gClick = <<>>

\* AppPreview is mounted and not yet visible.
PreviewIdle ==
    /\ isVisible = FALSE
    /\ appState = InitialAppState
    /\ simulating = FALSE
    /\ settleTimers = 0
    /\ previewDownloading = FALSE
    /\ previewDownloads = 0
    /\ reports100 = 0
    /\ completions = 0
    /\ previewLast = PreviewDid("Mount", 0)

\* Home shows the landing page: ChatInterface is not mounted.
ChatIdle ==
    /\ chatMessages = <<>>
    /\ chatLoading = TRUE
    /\ homeRenders = 0
    /\ effectRanWith = 0
    /\ pendingInitial = 0
    /\ initialRequested = 0
    /\ firstResponseCalls = 0

-----------------------------------------------------------------------------
(* Initial state: the component is mounted, the fetch is in flight. *)

Init ==
    /\ store \in StoreConfigs
    /\ config = <<>>
    /\ loading = TRUE
    /\ editingState = NoEditing
    /\ saving = FALSE
    /\ downloading = FALSE
    /\ timers = <<>>
    /\ pendingSaves = <<>>
    /\ pendingDownloads = 0
    /\ last = Did("Mount")
    /\ ciInput = ValidConfig
    /\ ciResult = <<>>
    /\ GraphIdle
    /\ PreviewIdle
    /\ ChatIdle

-----------------------------------------------------------------------------
(* loadConfig *)

\* fetchAgentConfig resolved: setConfig(data); finally setLoading(false).
LoadConfigSuccess ==
    /\ loading
    /\ config' = <<store>>
    /\ loading' = FALSE
    /\ last' = Did("LoadConfigSuccess")
    /\ UNCHANGED <<store, editingState, saving, downloading, timers,
                   pendingSaves, pendingDownloads>>
    /\ UNCHANGED outsideSession

\* loadConfig as it would be if setLoading(false) stood in the try block
\* only: a rejected fetch leaves the component loading.
LoadConfigFailureKeepsLoading ==
    /\ loading
    /\ last.op # "LoadConfigFailure"
    /\ last' = Did("LoadConfigFailure")
    /\ UNCHANGED <<store, config, loading, editingState, saving, downloading,
                   timers, pendingSaves, pendingDownloads>>
    /\ UNCHANGED outsideSession

\* fetchAgentConfig rejected: the error is logged; finally setLoading(false).
LoadConfigFailure ==
    /\ loading
    /\ loading' = FALSE
    /\ last' = Did("LoadConfigFailure")
    /\ UNCHANGED <<store, config, editingState, saving, downloading, timers,
                   pendingSaves, pendingDownloads>>
    /\ UNCHANGED outsideSession

-----------------------------------------------------------------------------
(* handleNodeClick and its deferred selection *)

\* The state a timer callback sets: a shallow copy of the entry of the
\* configuration its closure captured, or nothing when there is no entry.
SelectionOf(t, current) ==
    IF t.nodeType = "agent" /\ t.nodeId \in DOMAIN t.config.agents
    THEN [type |-> "agent", id |-> t.nodeId, data |-> <<t.config.agents[t.nodeId]>>]
    ELSE IF t.nodeType = "tool" /\ t.nodeId \in DOMAIN t.config.tools
    THEN [type |-> "tool", id |-> t.nodeId, data |-> <<t.config.tools[t.nodeId]>>]
    ELSE current

\* A click on a node of the graph: the editing state is cleared at once and
\* the selection is deferred by setTimeout(..., 50).
HandleNodeClick(nodeId, nodeType) ==
    /\ UiRendered
    /\ Len(timers) < MaxTimers
    /\ editingState' = NoEditing
    /\ timers' = Append(timers,
                        [nodeId |-> nodeId, nodeType |-> nodeType, config |-> config[1]])
    /\ last' = Did("HandleNodeClick")
    /\ UNCHANGED <<store, config, loading, saving, downloading,
                   pendingSaves, pendingDownloads>>
    /\ UNCHANGED outsideSession

\* The oldest pending timer fires (all timers have the same delay).
SelectionTimerFire ==
    /\ timers # <<>>
    /\ editingState' = SelectionOf(Head(timers), editingState)
    /\ timers' = Tail(timers)
    /\ last' = Did("SelectionTimerFire")
    /\ UNCHANGED <<store, config, loading, saving, downloading,
                   pendingSaves, pendingDownloads>>
    /\ UNCHANGED outsideSession

-----------------------------------------------------------------------------
(* handleSave *)

\* The call handleSave issues, with what the continuation of its await reads
\* from the closure: the editing state and the configuration of the render
\* in which Save was clicked.
SaveCall ==
    [type |-> editingState.type, id |-> editingState.id,
     data |-> editingState.data[1], config |-> config[1]]

\* A click on Save: if (!editingState.data || !editingState.id || !config)
\* return; setSaving(true); then updateAgent or updateTool is called and
\* awaited.
HandleSave ==
    /\ PanelRendered
    /\ SaveButtonEnabled
    /\ editingState.data # <<>> /\ editingState.id \notin {NULL, ""} /\ config # <<>>
    /\ editingState.type \in {"agent", "tool"}
    /\ saving' = TRUE
    /\ pendingSaves' = Append(pendingSaves, SaveCall)
    /\ last' = Did("HandleSave")
    /\ UNCHANGED <<store, config, loading, editingState, downloading, timers,
                   pendingDownloads>>
    /\ UNCHANGED outsideSession

\* handleSave as it would be if it forgot to put the draft into the
\* configuration.
SavedConfigWithoutDraft(sv) == sv.config

\* handleSave as it would be if it stored an agent without its tools.
SavedConfigClearsTools(sv) ==
    IF sv.type = "agent"
    THEN [sv.config EXCEPT !.agents =
            SetEntry(sv.config.agents, sv.id, [sv.data EXCEPT !.tools = <<>>])]
    ELSE [sv.config EXCEPT !.tools = SetEntry(sv.config.tools, sv.id, sv.data)]

\* handleSave as it would be if it also made the saved entity the main
\* agent.
SavedConfigRenamesMain(sv) ==
    IF sv.type = "agent"
    THEN [sv.config EXCEPT !.agents = SetEntry(sv.config.agents, sv.id, sv.data),
                           !.main_agent = sv.id]
    ELSE [sv.config EXCEPT !.tools = SetEntry(sv.config.tools, sv.id, sv.data),
                           !.main_agent = sv.id]

\* The configuration setConfig receives after the awaited call resolved:
\* the captured configuration with the one entry replaced by the draft.
SavedConfig(sv) ==
    IF sv.type = "agent"
    THEN [sv.config EXCEPT !.agents = SetEntry(sv.config.agents, sv.id, sv.data)]
    ELSE [sv.config EXCEPT !.tools = SetEntry(sv.config.tools, sv.id, sv.data)]

\* The i-th call in flight resolves: the store has applied the update;
\* setConfig(...); setEditingState(cleared); finally setSaving(false).
SaveSuccess(i) ==
    /\ store' = StoreUpdate(store, pendingSaves[i])
    /\ config' = <<SavedConfig(pendingSaves[i])>>
    /\ editingState' = NoEditing
    /\ saving' = FALSE
    /\ pendingSaves' = RemoveAt(pendingSaves, i)
    /\ last' = DidSave("SaveSuccess", pendingSaves[i])
    /\ UNCHANGED <<loading, downloading, timers, pendingDownloads>>
    /\ UNCHANGED outsideSession

\* handleSave as it would be if setConfig ran before the awaited call, so
\* that a rejected call left the draft in the configuration.
ConfigOptimisticallySaved(sv) ==
    IF sv.type = "agent"
    THEN <<[sv.config EXCEPT !.agents = SetEntry(sv.config.agents, sv.id, sv.data)]>>
    ELSE <<[sv.config EXCEPT !.tools = SetEntry(sv.config.tools, sv.id, sv.data)]>>

\* What the catch branch of handleSave does to the configuration: nothing.
ConfigAfterFailedSave(sv) == config

\* handleSave as it would be if setSaving(false) stood at the end of the
\* try block, not in finally: a rejected call leaves the flag set.
SaveFailureKeepsSaving(i) ==
    /\ config' = ConfigAfterFailedSave(pendingSaves[i])
    /\ pendingSaves' = RemoveAt(pendingSaves, i)
    /\ last' = DidSave("SaveFailure", pendingSaves[i])
    /\ UNCHANGED <<store, loading, editingState, saving, downloading, timers,
                   pendingDownloads>>
    /\ UNCHANGED outsideSession

\* The i-th call in flight rejects: the store is unchanged; the error is
\* logged; finally setSaving(false).
SaveFailure(i) ==
    /\ config' = ConfigAfterFailedSave(pendingSaves[i])
    /\ saving' = FALSE
    /\ pendingSaves' = RemoveAt(pendingSaves, i)
    /\ last' = DidSave("SaveFailure", pendingSaves[i])
    /\ UNCHANGED <<store, loading, editingState, downloading, timers,
                   pendingDownloads>>
    /\ UNCHANGED outsideSession

-----------------------------------------------------------------------------
(* handleCancel and updateEditingData *)

\* handleCancel as it would be if it left the editing state alone.
HandleCancelKeepsDraft ==
    /\ PanelRendered
    /\ CancelButtonEnabled
    /\ last' = Did("HandleCancel")
    /\ UNCHANGED <<store, config, loading, editingState, saving, downloading,
                   timers, pendingSaves, pendingDownloads>>
    /\ UNCHANGED outsideSession

\* A click on Cancel or on the close button of the side panel.
HandleCancel ==
    /\ PanelRendered
    /\ CancelButtonEnabled
    /\ editingState' = NoEditing
    /\ last' = Did("HandleCancel")
    /\ UNCHANGED <<store, config, loading, saving, downloading, timers,
                   pendingSaves, pendingDownloads>>
    /\ UNCHANGED outsideSession

\* updateEditingData as it would be if the draft were the entry itself and
\* the update were written through to the configuration.
ConfigWrittenByEdit(updates) ==
    IF editingState.type = "agent"
    THEN <<[config[1] EXCEPT !.agents = SetEntry(config[1].agents, editingState.id,
                                                 Spread(editingState.data[1], updates))]>>
    ELSE <<[config[1] EXCEPT !.tools = SetEntry(config[1].tools, editingState.id,
                                                Spread(editingState.data[1], updates))]>>

\* What updateEditingData does to the configuration: nothing, the draft is a
\* copy and is replaced, not written to.
ConfigAfterEdit(updates) == config

\* A field of the side panel changes: if (!editingState.data) return;
\* setEditingState({ ...editingState, data: { ...editingState.data, ...updates } }).
UpdateEditingData(updates) ==
    /\ PanelRendered
    /\ editingState.data # <<>>
    /\ editingState' =
          [editingState EXCEPT !.data = <<Spread(editingState.data[1], updates)>>]
    /\ config' = ConfigAfterEdit(updates)
    /\ last' = Did("UpdateEditingData")
    /\ UNCHANGED <<store, loading, saving, downloading, timers,
                   pendingSaves, pendingDownloads>>
    /\ UNCHANGED outsideSession

-----------------------------------------------------------------------------
(* handleDownloadCode *)

\* A click on Download Code: if (!config) return; setDownloading(true); then
\* codeGenerator.generateAndDownload(config) is called and awaited.
HandleDownloadCode ==
    /\ UiRendered
    /\ DownloadButtonEnabled
    /\ config # <<>>
    /\ downloading' = TRUE
    /\ pendingDownloads' = pendingDownloads + 1
    /\ last' = Did("HandleDownloadCode")
    /\ UNCHANGED <<store, config, loading, editingState, saving, timers,
                   pendingSaves>>
    /\ UNCHANGED outsideSession

\* The generation call resolves: finally setDownloading(false).
DownloadSuccess ==
    /\ pendingDownloads > 0
    /\ downloading' = FALSE
    /\ pendingDownloads' = pendingDownloads - 1
    /\ last' = Did("DownloadSuccess")
    /\ UNCHANGED <<store, config, loading, editingState, saving, timers,
                   pendingSaves>>
    /\ UNCHANGED outsideSession

\* handleDownloadCode as it would be if its catch branch closed the side
\* panel.
DownloadFailureClosesPanel ==
    /\ pendingDownloads > 0
    /\ downloading' = FALSE
    /\ pendingDownloads' = pendingDownloads - 1
    /\ editingState' = NoEditing
    /\ last' = Did("DownloadFailure")
    /\ UNCHANGED <<store, config, loading, saving, timers, pendingSaves>>
    /\ UNCHANGED outsideSession

\* The generation call rejects: the error is logged; finally
\* setDownloading(false).
DownloadFailure ==
    /\ pendingDownloads > 0
    /\ downloading' = FALSE
    /\ pendingDownloads' = pendingDownloads - 1
    /\ last' = Did("DownloadFailure")
    /\ UNCHANGED <<store, config, loading, editingState, saving, timers,
                   pendingSaves>>
    /\ UNCHANGED outsideSession

-----------------------------------------------------------------------------
(* The editing session *)

\* The graph shows the nodes of the configuration held; before the fetch
\* resolved there is none.
DisplayedNodes == IF config = <<>> THEN {} ELSE ClickableNodes(config[1])

NodeClick == \E n \in DisplayedNodes : HandleNodeClick(n[1], n[2])

SaveResolves == \E i \in 1..Len(pendingSaves) : SaveSuccess(i)

SaveRejects == \E i \in 1..Len(pendingSaves) : SaveFailure(i)

FieldEdit == \E u \in FieldUpdates : UpdateEditingData(u)

Next ==
    \/ LoadConfigSuccess
    \/ LoadConfigFailure
    \/ NodeClick
    \/ SelectionTimerFire
    \/ HandleSave
    \/ SaveResolves
    \/ SaveRejects
    \/ HandleCancel
    \/ FieldEdit
    \/ HandleDownloadCode
    \/ DownloadSuccess
    \/ DownloadFailure

Spec == Init /\ [][Next]_vars

-----------------------------------------------------------------------------
(* checkIntegrity (spec section 4.1): the violations of a configuration.    *)
(* A violation is [kind, agent, ref]: DanglingToolReference(agent, tool),   *)
(* DanglingSubAgentReference(agent, subAgent) or UnknownMainAgent(name),    *)
(* the last with the name in both fields.                                   *)

Violation(kind, agent, ref) == [kind |-> kind, agent |-> agent, ref |-> ref]

\* One pass over a list of references of an agent: a violation of the given
\* kind for each entry that is no key.
RECURSIVE DanglingIn(_, _, _, _)
DanglingIn(kind, agent, refs, keys) ==
    IF refs = <<>> THEN {}
    ELSE (IF Head(refs) \in keys THEN {} ELSE {Violation(kind, agent, Head(refs))})
         \cup DanglingIn(kind, agent, Tail(refs), keys)

\* The check that forgets the sub-agent references.
CheckIntegrityToolsOnly(cfg) ==
    UNION {DanglingIn("DanglingToolReference", a, cfg.agents[a].tools, DOMAIN cfg.tools)
            : a \in DOMAIN cfg.agents}
    \cup (IF cfg.main_agent \in DOMAIN cfg.agents THEN {}
          ELSE {Violation("UnknownMainAgent", cfg.main_agent, cfg.main_agent)})

CheckIntegrity(cfg) ==
    UNION {DanglingIn("DanglingToolReference", a, cfg.agents[a].tools, DOMAIN cfg.tools)
           \cup DanglingIn("DanglingSubAgentReference", a, cfg.agents[a].sub_agents,
                           DOMAIN cfg.agents)
            : a \in DOMAIN cfg.agents}
    \cup (IF cfg.main_agent \in DOMAIN cfg.agents THEN {}
          ELSE {Violation("UnknownMainAgent", cfg.main_agent, cfg.main_agent)})

\* The sequences over S of length at most n.
SeqsUpTo(S, n) == UNION {[1..k -> S] : k \in 0..n}

\* The configurations the check is tried on: agent a with any lists of tool
\* and sub-agent names, resolving or not, repeated or not; agent b alone, in
\* a cycle with a, or with a tool name of its own; a tools map with or
\* without the key u; a main agent that is a key or not.
IntegrityInputs ==
    {ProjectConfig(m,
        [n \in {"a", "b"} |->
            IF n = "a" THEN Agent("a", "p", at, as) ELSE Agent("b", "p", bt, bs)],
        [n \in tk |-> Tool(n, "p", "builtin")])
     : m \in {"a", "g"},
       at \in SeqsUpTo({"t", "u"}, MaxRefs),
       as \in SeqsUpTo({"b", "g"}, MaxRefs),
       bt \in {<<>>, <<"u">>},
       bs \in {<<>>, <<"a">>},
       tk \in {{"t"}, {"t", "u"}}}

\* The session part of a state of the integrity specification: a mounted
\* component that never leaves its initial state.
SessionIdle ==
    /\ store = ValidConfig
    /\ config = <<>>
    /\ loading = TRUE
    /\ editingState = NoEditing
    /\ saving = FALSE
    /\ downloading = FALSE
    /\ timers = <<>>
    /\ pendingSaves = <<>>
    /\ pendingDownloads = 0
    /\ last = Did("Mount")

InitIntegrity ==
    /\ SessionIdle
    /\ GraphIdle
    /\ PreviewIdle
    /\ ChatIdle
    /\ ciInput \in IntegrityInputs
    /\ ciResult = <<>>

\* The check is applied to the input.
RunCheckIntegrity ==
    /\ ciResult = <<>>
    /\ ciResult' = <<CheckIntegrity(ciInput)>>
    /\ UNCHANGED ciInput
    /\ UNCHANGED <<sessionVars, graphVars, previewVars, chatVars>>

NextIntegrity == RunCheckIntegrity

SpecIntegrity == InitIntegrity /\ [][NextIntegrity]_vars

-----------------------------------------------------------------------------
(* Properties of the editing session (specification Spec) *)

\* The entry of a configuration for (kind, id).
EntryOf(cfg, kind, id) == IF kind = "agent" THEN cfg.agents[id] ELSE cfg.tools[id]

\* The session is in Editing (or Saving) of some entity: a draft is held.
HasDraft(es) == es.data # <<>>

\* The entries of the configuration that differ between this state and the
\* next, as (kind, id) pairs.
ChangedEntries ==
    IF config = <<>> \/ config' = <<>> THEN {}
    ELSE {e \in ClickableNodes(config[1]) \cap ClickableNodes(config'[1]) :
            EntryOf(config'[1], e[2], e[1]) # EntryOf(config[1], e[2], e[1])}

\* C1 - Edit isolation: a field mutation of the draft leaves the
\* configuration, and so the entry of the entity being edited, unchanged; an
\* entry of the configuration changes only in the step in which a save of
\* that entity succeeds, and then it becomes the draft that was saved.
EditIsolation ==
    [][/\ last'.op = "UpdateEditingData" => config' = config
       /\ \A e \in ChangedEntries :
            /\ last'.op = "SaveSuccess"
            /\ last'.save[1].type = e[2]
            /\ last'.save[1].id = e[1]
            /\ EntryOf(config'[1], e[2], e[1]) = last'.save[1].data]_vars

\* C1 witness: a field was just mutated and the draft now differs from the
\* entry of the configuration it was copied from.
EditIsolationWitness ==
    /\ last.op = "UpdateEditingData"
    /\ HasDraft(editingState)
    /\ editingState.data[1] # EntryOf(config[1], editingState.type, editingState.id)

\* C2 - Save failure preserves draft (as claimed): right after a save call
\* issued with draft D for (kind, id) failed, the session is in Editing of
\* (kind, id) with draft D.
SaveFailurePreservesDraft ==
    last.op = "SaveFailure" =>
        /\ HasDraft(editingState)
        /\ editingState.type = last.save[1].type
        /\ editingState.id = last.save[1].id
        /\ editingState.data[1] = last.save[1].data

\* C3 - Successful save: right after the save call for (kind, id) with draft
\* D succeeded, the entry of the configuration for (kind, id) is D and the
\* editing state is cleared.
SuccessfulSave ==
    last.op = "SaveSuccess" =>
        /\ config # <<>>
        /\ EntryOf(config[1], last.save[1].type, last.save[1].id) = last.save[1].data
        /\ editingState = NoEditing

\* C3 witness: a save of a draft that differed from the entry has succeeded.
SuccessfulSaveWitness ==
    /\ last.op = "SaveSuccess"
    /\ last.save[1].data #
          EntryOf(last.save[1].config, last.save[1].type, last.save[1].id)

\* C4 - Save exclusivity: at most one update call is in flight, and one is
\* in flight exactly while the saving flag is set.
SaveExclusivity ==
    /\ Len(pendingSaves) <= 1
    /\ saving <=> pendingSaves # <<>>

\* C4 witness: a save is in flight while the side panel shows a draft again
\* (the user selected a node after clicking Save), so a click on Save is
\* all that a second call would take.
SaveExclusivityWitness ==
    /\ Len(pendingSaves) = 1
    /\ PanelRendered
    /\ last.op = "SelectionTimerFire"

\* C5 - Selection swap ordering (as claimed): no step takes the session from
\* a draft of one entity to a draft of another entity.
SwapThroughIdle ==
    [][(HasDraft(editingState) /\ HasDraft(editingState')) =>
          /\ editingState'.type = editingState.type
          /\ editingState'.id = editingState.id]_vars

\* C6 - Cancel only from Editing (as claimed): a cancel while a save is in
\* flight leaves the draft in place.
CancelOnlyFromEditing ==
    (last.op = "HandleCancel" /\ pendingSaves # <<>>) => HasDraft(editingState)

\* C7 - Single writer: the configuration is set once by the initial fetch
\* and from then on changes only in a successful-save step.
SingleWriter ==
    [][config' # config =>
          \/ config = <<>> /\ last'.op = "LoadConfigSuccess"
          \/ config # <<>> /\ last'.op = "SaveSuccess"]_vars

\* C7 witness: a save of a changed draft has just failed and the
\* configuration is still the one fetched.
SingleWriterWitness ==
    /\ last.op = "SaveFailure"
    /\ last.save[1].data #
          EntryOf(last.save[1].config, last.save[1].type, last.save[1].id)
    /\ config # <<>>
    /\ config[1] \in StoreConfigs

\* C8 - Integrity gate (as claimed): the configuration held in memory has
\* no integrity violation.
IntegrityGate == config # <<>> => CheckIntegrity(config[1]) = {}

\* The violations of the entity of an update call, against the configuration
\* it was issued from.
UpdateViolations(sv) ==
    IF sv.type = "agent"
    THEN DanglingIn("DanglingToolReference", sv.id, sv.data.tools, DOMAIN sv.config.tools)
         \cup DanglingIn("DanglingSubAgentReference", sv.id, sv.data.sub_agents,
                         DOMAIN sv.config.agents)
    ELSE {}

\* C9 - No update with a dangling reference reaches the store (as claimed):
\* no call in flight carries an entity with such a reference.
NoDanglingUpdateIssued ==
    \A i \in 1..Len(pendingSaves) : UpdateViolations(pendingSaves[i]) = {}

\* C11 - Load failure: right after the initial fetch failed the component
\* shows the load-failure render with no configuration, nothing is selected,
\* pending or in flight, and no step of the session can be taken: no fetch
\* is retried and no selection, save or download takes effect.
LoadFailureIsFinal ==
    last.op = "LoadConfigFailure" =>
        /\ ~loading
        /\ config = <<>>
        /\ editingState = NoEditing
        /\ ~saving /\ ~downloading
        /\ timers = <<>> /\ pendingSaves = <<>> /\ pendingDownloads = 0
        /\ ~ENABLED Next

\* C11 witness: the fetch has failed.
LoadFailureWitness == last.op = "LoadConfigFailure" /\ ~UiRendered

\* C12 - Download failure: the step in which the generation call fails
\* resets the downloading flag and leaves the configuration, the store, the
\* editing state, the saving flag and everything pending unchanged.
DownloadFailureFrame ==
    [][last'.op = "DownloadFailure" =>
          /\ downloading /\ ~downloading'
          /\ UNCHANGED <<store, config, loading, editingState, saving, timers,
                         pendingSaves>>]_vars

\* C12 witness: a download has just failed while a draft was open and a save
\* was in flight.
DownloadFailureWitness ==
    /\ last.op = "DownloadFailure"
    /\ HasDraft(editingState)
    /\ saving

-----------------------------------------------------------------------------
(* Properties of checkIntegrity (specification SpecIntegrity) *)

\* The positions (agent, index) of the entries of the agents' lists, taken
\* by field, that are no key of keys.
AbsentRefs(cfg, field, keys) ==
    {p \in UNION {{<<a, i>> : i \in 1..Len(cfg.agents[a][field])} : a \in DOMAIN cfg.agents} :
        cfg.agents[p[1]][field][p[2]] \notin keys}

\* The violations present in a configuration, stated by position.
ViolationsPresent(cfg) ==
    {Violation("DanglingToolReference", p[1], cfg.agents[p[1]].tools[p[2]])
        : p \in AbsentRefs(cfg, "tools", DOMAIN cfg.tools)}
    \cup {Violation("DanglingSubAgentReference", p[1], cfg.agents[p[1]].sub_agents[p[2]])
        : p \in AbsentRefs(cfg, "sub_agents", DOMAIN cfg.agents)}
    \cup {Violation("UnknownMainAgent", cfg.main_agent, cfg.main_agent)
        : x \in {cfg.main_agent} \ DOMAIN cfg.agents}

\* The only defect of the configuration is one absent sub-agent name.
OnlyOneAbsentSubAgent(cfg) ==
    /\ cfg.main_agent \in DOMAIN cfg.agents
    /\ AbsentRefs(cfg, "tools", DOMAIN cfg.tools) = {}
    /\ Cardinality(AbsentRefs(cfg, "sub_agents", DOMAIN cfg.agents)) = 1

\* C10 - checkIntegrity returns a set of violations for every configuration,
\* exactly the violations present; for a configuration whose only defect is
\* one absent sub-agent name that is exactly one DanglingSubAgentReference.
CheckIntegrityExact ==
    ciResult # <<>> =>
        /\ ciResult[1] = ViolationsPresent(ciInput)
        /\ OnlyOneAbsentSubAgent(ciInput) =>
              /\ Cardinality(ciResult[1]) = 1
              /\ \A v \in ciResult[1] : v.kind = "DanglingSubAgentReference"

\* C10 witness: the check ran on a configuration whose only defect is one
\* absent sub-agent name, listed by agent a next to a name that resolves.
CheckIntegrityWitness ==
    /\ ciResult # <<>>
    /\ OnlyOneAbsentSubAgent(ciInput)
    /\ ciInput.agents["a"].sub_agents = <<"b", "g">>

-----------------------------------------------------------------------------
(* AppPreview (app-preview.tsx): the build progress.  The progress source   *)
(* (simulateAgentBuilding, lib/mock-api) is a callback-driven emitter of    *)
(* integer progress updates (spec section 6): once started it may report    *)
(* any value of ProgressValues at any time.                                 *)

\* The values the progress source reports.
ProgressValues == {0, 25, 50, 75, 100}

\* The callback as it would be if it built the state anew instead of
\* spreading the previous one.
AppStateRebuiltByReport(prev, progress) ==
    [isBuilding |-> TRUE, isComplete |-> FALSE, progress |-> progress]

\* setAppState((prev) => ({ ...prev, progress }))
ProgressAfterReport(prev, progress) == [prev EXCEPT !.progress = progress]

\* The test as it would be with a comparison that no report satisfies.
NeverSchedulesSettle(progress) == progress > 100

\* if (progress === 100) setTimeout(..., 500)
ReportSchedulesSettle(progress) == progress = 100

\* The timer callback as it would be if it set isComplete only.
SettledStateStillBuilding(prev) == [prev EXCEPT !.isComplete = TRUE]

\* setAppState((prev) => ({ ...prev, isBuilding: false, isComplete: true }))
SettledState(prev) == [prev EXCEPT !.isBuilding = FALSE, !.isComplete = TRUE]

\* The Download Agent Code button: rendered when the preview is visible, the
\* build screen is gone and appState.isComplete; disabled={downloading}.
PreviewDownloadButtonEnabled ==
    isVisible /\ ~appState.isBuilding /\ appState.isComplete /\ ~previewDownloading

InitPreview ==
    /\ SessionIdle
    /\ ciInput = ValidConfig
    /\ ciResult = <<>>
    /\ GraphIdle
    /\ PreviewIdle
    /\ ChatIdle

\* Home calls setShowPreview(true): isVisible becomes true and the effect
\* runs again; if (isVisible && appState.isBuilding) it starts the progress
\* source.
ShowPreviewEffect ==
    /\ ~isVisible
    /\ isVisible' = TRUE
    /\ simulating' = (simulating \/ appState.isBuilding)
    /\ previewLast' = PreviewDid("ShowPreview", 0)
    /\ UNCHANGED <<appState, settleTimers, previewDownloading, previewDownloads,
                   reports100, completions>>

\* The preview is shown while nothing else changes.
ShowPreview ==
    /\ ShowPreviewEffect
    /\ UNCHANGED <<sessionVars, integrityVars, graphVars, chatVars>>

\* The progress source calls the callback with a value: the value is
\* stored, and a report of 100 schedules the settle timer.
ReportProgress(progress) ==
    /\ simulating
    /\ progress = 100 => reports100 < MaxReports100
    /\ appState' = ProgressAfterReport(appState, progress)
    /\ settleTimers' = settleTimers + (IF ReportSchedulesSettle(progress) THEN 1 ELSE 0)
    /\ reports100' = reports100 + (IF progress = 100 THEN 1 ELSE 0)
    /\ previewLast' = PreviewDid("ReportProgress", progress)
    /\ UNCHANGED <<isVisible, simulating, previewDownloading, previewDownloads,
                   completions>>
    /\ UNCHANGED <<sessionVars, integrityVars, graphVars, chatVars>>

\* A settle timer fires.  The effect runs again when isBuilding changed, and
\* starts nothing since isBuilding is false.
SettleTimerFire ==
    /\ settleTimers > 0
    /\ settleTimers' = settleTimers - 1
    /\ appState' = SettledState(appState)
    /\ completions' = completions +
          (IF ~appState.isComplete /\ appState'.isComplete THEN 1 ELSE 0)
    /\ previewLast' = PreviewDid("SettleTimerFire", 0)
    /\ UNCHANGED <<isVisible, simulating, previewDownloading, previewDownloads,
                   reports100>>
    /\ UNCHANGED <<sessionVars, integrityVars, graphVars, chatVars>>

\* A click on Download Agent Code: setDownloading(true); then the
\* configuration is fetched and the generation call awaited.
HandlePreviewDownload ==
    /\ PreviewDownloadButtonEnabled
    /\ previewDownloading' = TRUE
    /\ previewDownloads' = previewDownloads + 1
    /\ previewLast' = PreviewDid("HandlePreviewDownload", 0)
    /\ UNCHANGED <<isVisible, appState, simulating, settleTimers, reports100,
                   completions>>
    /\ UNCHANGED <<sessionVars, integrityVars, graphVars, chatVars>>

\* Both awaited calls resolved: finally setDownloading(false).
PreviewDownloadSuccess ==
    /\ previewDownloads > 0
    /\ previewDownloading' = FALSE
    /\ previewDownloads' = previewDownloads - 1
    /\ previewLast' = PreviewDid("PreviewDownloadSuccess", 0)
    /\ UNCHANGED <<isVisible, appState, simulating, settleTimers, reports100,
                   completions>>
    /\ UNCHANGED <<sessionVars, integrityVars, graphVars, chatVars>>

\* The fetch or the generation call rejected: the error is logged; finally
\* setDownloading(false).
PreviewDownloadFailure ==
    /\ previewDownloads > 0
    /\ previewDownloading' = FALSE
    /\ previewDownloads' = previewDownloads - 1
    /\ previewLast' = PreviewDid("PreviewDownloadFailure", 0)
    /\ UNCHANGED <<isVisible, appState, simulating, settleTimers, reports100,
                   completions>>
    /\ UNCHANGED <<sessionVars, integrityVars, graphVars, chatVars>>

ProgressReported == \E p \in ProgressValues : ReportProgress(p)

NextPreview ==
    \/ ShowPreview
    \/ ProgressReported
    \/ SettleTimerFire
    \/ HandlePreviewDownload
    \/ PreviewDownloadSuccess
    \/ PreviewDownloadFailure

\* A pending timer fires: the event loop runs every timer that is due.
SpecPreview == InitPreview /\ [][NextPreview]_vars /\ WF_vars(SettleTimerFire)

-----------------------------------------------------------------------------
(* Properties of the build progress (specification SpecPreview) *)

\* C13 - Progress monotonicity (as claimed): no step lowers the progress
\* value held.
ProgressNeverDecreases == [][appState'.progress >= appState.progress]_vars

\* C14 - Once the progress source has reported 100 the build eventually is
\* Complete, and Building becomes Complete exactly once however often 100 is
\* reported: never more than once, and once when Complete.
CompleteExactlyOnce ==
    /\ (reports100 > 0) ~> appState.isComplete
    /\ [](completions <= 1)
    /\ [](appState.isComplete => completions = 1)

\* C14 witness: 100 was reported twice, both settle timers have fired, and
\* Building became Complete once.
CompleteExactlyOnceWitness ==
    /\ reports100 = 2
    /\ settleTimers = 0
    /\ appState.isComplete
    /\ completions = 1

\* C15 - Complete is terminal: no step leaves Complete or returns to
\* Building.
CompleteIsTerminal ==
    [][appState.isComplete => (appState'.isComplete /\ ~appState'.isBuilding)]_vars

\* C15 witness: the build is Complete and the progress source has just
\* reported a value below 100.
CompleteIsTerminalWitness ==
    /\ appState.isComplete
    /\ ~appState.isBuilding
    /\ previewLast.op = "ReportProgress"
    /\ previewLast.value < 100
    /\ isVisible

-----------------------------------------------------------------------------
(* generateGraph (agent-graph.tsx).  Object.entries yields the entries of a *)
(* map in insertion order, so the maps of the configuration it reads are    *)
(* sequences of <<key, value>> entries with distinct keys.                  *)

\* Layout numbers of generateGraph.
MainAgentX == 400

MainAgentY == 50

AgentOriginX == 200

AgentOriginY == 200

AgentColumns == 3

AgentColumnWidth == 300

AgentRowHeight == 150

ToolOriginX == 100

ToolOriginY == 400

ToolColumns == 4

ToolColumnWidth == 200

ToolRowHeight == 100

\* `agent-${agentName}`
AgentNodeId(agentName) == "agent-" \o agentName

\* The id of a tool node as it would be with the prefix of the agents.
ToolNodeIdWithAgentPrefix(toolName) == "agent-" \o toolName

\* `tool-${toolName}`
ToolNodeId(toolName) == "tool-" \o toolName

\* `${agentName}-${name}`: the id of an edge, for a sub-agent and for a tool.
EdgeId(agentName, name) == agentName \o "-" \o name

\* The agent node as it would be with the grid slot counted from 1.
AgentNodeOneBasedIndex(cfg, entry, index) ==
    LET isMainAgent == entry[1] = cfg.main_agent
    IN  [id |-> AgentNodeId(entry[1]),
         type |-> "agent",
         x |-> IF isMainAgent THEN MainAgentX
               ELSE AgentOriginX + ((index + 1) % AgentColumns) * AgentColumnWidth,
         y |-> IF isMainAgent THEN MainAgentY
               ELSE AgentOriginY + ((index + 1) \div AgentColumns) * AgentRowHeight,
         label |-> entry[2].name,
         description |-> entry[2].description]

\* The agent node as it would be if the first entry of the map, not the
\* entry named by main_agent, took the anchor.
AgentNodeFirstIsMain(cfg, entry, index) ==
    LET isMainAgent == index = 0
    IN  [id |-> AgentNodeId(entry[1]),
         type |-> "agent",
         x |-> IF isMainAgent THEN MainAgentX
               ELSE AgentOriginX + (index % AgentColumns) * AgentColumnWidth,
         y |-> IF isMainAgent THEN MainAgentY
               ELSE AgentOriginY + (index \div AgentColumns) * AgentRowHeight,
         label |-> entry[2].name,
         description |-> entry[2].description]

\* The agent node as it would be with the grid slot counted among the
\* agents that are not the main agent.
AgentNodeByNonMainIndex(cfg, entry, index) ==
    LET isMainAgent == entry[1] = cfg.main_agent
        slot == Cardinality({j \in 1..index : cfg.agents[j][1] # cfg.main_agent})
    IN  [id |-> AgentNodeId(entry[1]),
         type |-> "agent",
         x |-> IF isMainAgent THEN MainAgentX
               ELSE AgentOriginX + (slot % AgentColumns) * AgentColumnWidth,
         y |-> IF isMainAgent THEN MainAgentY
               ELSE AgentOriginY + (slot \div AgentColumns) * AgentRowHeight,
         label |-> entry[2].name,
         description |-> entry[2].description]

\* The node pushed for the agent entry at the given index (from 0).
AgentNode(cfg, entry, index) ==
    LET isMainAgent == entry[1] = cfg.main_agent
    IN  [id |-> AgentNodeId(entry[1]),
         type |-> "agent",
         x |-> IF isMainAgent THEN MainAgentX
               ELSE AgentOriginX + (index % AgentColumns) * AgentColumnWidth,
         y |-> IF isMainAgent THEN MainAgentY
               ELSE AgentOriginY + (index \div AgentColumns) * AgentRowHeight,
         label |-> entry[2].name,
         description |-> entry[2].description]

\* The tool node as it would be on the grid of the agents.
ToolNodeOnAgentGrid(entry, index) ==
    [id |-> ToolNodeId(entry[1]),
     type |-> "tool",
     x |-> ToolOriginX + (index % AgentColumns) * ToolColumnWidth,
     y |-> ToolOriginY + (index \div AgentColumns) * ToolRowHeight,
     label |-> entry[2].name,
     description |-> entry[2].description]

\* The node pushed for the tool entry at the given index (from 0).
ToolNode(entry, index) ==
    [id |-> ToolNodeId(entry[1]),
     type |-> "tool",
     x |-> ToolOriginX + (index % ToolColumns) * ToolColumnWidth,
     y |-> ToolOriginY + (index \div ToolColumns) * ToolRowHeight,
     label |-> entry[2].name,
     description |-> entry[2].description]

\* The edge pushed for an entry of agent.sub_agents.
SubAgentEdge(agentName, subAgentName) ==
    [id |-> EdgeId(agentName, subAgentName),
     source |-> AgentNodeId(agentName),
     target |-> AgentNodeId(subAgentName),
     label |-> "sub-agent"]

\* The tool edge as it would be with the target built like an agent's id.
ToolEdgeToAgentId(agentName, toolName) ==
    [id |-> EdgeId(agentName, toolName),
     source |-> AgentNodeId(agentName),
     target |-> AgentNodeId(toolName),
     label |-> "uses"]

\* The edge pushed for an entry of agent.tools.
ToolEdge(agentName, toolName) ==
    [id |-> EdgeId(agentName, toolName),
     source |-> AgentNodeId(agentName),
     target |-> ToolNodeId(toolName),
     label |-> "uses"]

\* The keys of a map given by its entries.
Keys(entries) == {entries[i][1] : i \in 1..Len(entries)}

\* The edges of one agent as they would be if edges to absent targets were
\* left out.
EdgesOfAgentResolvedOnly(cfg, entry) ==
    LET subs == SelectSeq(entry[2].sub_agents, LAMBDA n : n \in Keys(cfg.agents))
        uses == SelectSeq(entry[2].tools, LAMBDA n : n \in Keys(cfg.tools))
    IN  [k \in 1..Len(subs) |-> SubAgentEdge(entry[1], subs[k])]
        \o [k \in 1..Len(uses) |-> ToolEdge(entry[1], uses[k])]

\* The edges of one agent as they would be if the tool edges were left out.
EdgesOfAgentSubAgentsOnly(cfg, entry) ==
    [k \in 1..Len(entry[2].sub_agents) |->
        SubAgentEdge(entry[1], entry[2].sub_agents[k])]

\* The edges pushed for one agent entry: its sub-agent edges in list order,
\* then its tool edges in list order.
EdgesOfAgent(cfg, entry) ==
    [k \in 1..Len(entry[2].sub_agents) |->
        SubAgentEdge(entry[1], entry[2].sub_agents[k])]
    \o [k \in 1..Len(entry[2].tools) |-> ToolEdge(entry[1], entry[2].tools[k])]

\* agentEntries.forEach over the edges, from the i-th entry on.
RECURSIVE EdgesFrom(_, _)
EdgesFrom(cfg, i) ==
    IF i > Len(cfg.agents) THEN <<>>
    ELSE EdgesOfAgent(cfg, cfg.agents[i]) \o EdgesFrom(cfg, i + 1)

\* generateGraph: the nodes (agents, then tools) and the edges it sets.
BuildGraph(cfg) ==
    [nodes |-> [i \in 1..Len(cfg.agents) |-> AgentNode(cfg, cfg.agents[i], i - 1)]
               \o [j \in 1..Len(cfg.tools) |-> ToolNode(cfg.tools[j], j - 1)],
     edges |-> EdgesFrom(cfg, 1)]

\* The value stored under a key of a map given by its entries.
ValueOf(entries, key) ==
    entries[CHOOSE i \in 1..Len(entries) : entries[i][1] = key][2]

\* The configuration read as maps, the form checkIntegrity takes.
AsConfig(cfg) ==
    ProjectConfig(cfg.main_agent,
        [n \in Keys(cfg.agents) |-> ValueOf(cfg.agents, n)],
        [n \in Keys(cfg.tools) |-> ValueOf(cfg.tools, n)])

\* Insertion orders of the agents map; the longest reaches the third grid row.
AgentOrders ==
    {<<"root">>, <<"root", "a">>, <<"a", "root">>,
     <<"root", "a", "b", "c", "d">>, <<"a", "b", "c", "root", "d">>,
     <<"d", "c", "b", "a", "root">>,
     <<"root", "a", "b", "c", "d", "e", "f", "g">>}

\* Insertion orders of the tools map; one has a tool named like an agent,
\* the longest reaches the second grid row with its seventh tool.
ToolOrders ==
    {<<>>, <<"search">>, <<"a", "search">>,
     <<"search", "t2", "t3", "t4", "t5">>,
     <<"search", "t2", "t3", "t4", "t5", "t6", "t7">>}

\* The configurations generateGraph is tried on: the agents and the tools in
\* several insertion orders; a main agent that is first, in the middle, last
\* or no key; agent root with any lists of sub-agent and tool names,
\* resolving or not, repeated or not, or a tool named like its sub-agent;
\* agent a alone or in a cycle with root.
GraphInputs ==
    {[main_agent |-> m,
      agents |-> [i \in 1..Len(ao) |->
                    <<ao[i],
                      IF ao[i] = "root" THEN Agent("root", "p", rt, rs)
                      ELSE IF ao[i] = "a" THEN Agent("a", "q", at, as)
                      ELSE Agent(ao[i], "p", <<>>, <<>>)>>],
      tools |-> [j \in 1..Len(to) |-> <<to[j], Tool(to[j], "p", "builtin")>>]]
     : m \in {"root", "a", "none"},
       ao \in AgentOrders,
       to \in ToolOrders,
       rs \in SeqsUpTo({"a", "ghost"}, MaxRefs),
       rt \in SeqsUpTo({"search", "nope"}, MaxRefs) \cup {<<"a">>},
       as \in {<<>>, <<"root">>},
       at \in {<<>>, <<"search">>}}

\* The integrity part of a state in which the check is not in use.
IntegrityIdle ==
    /\ ciInput = ValidConfig
    /\ ciResult = <<>>

InitGraph ==
    /\ SessionIdle
    /\ IntegrityIdle
    /\ PreviewIdle
    /\ ChatIdle
    /\ gInput \in GraphInputs
    /\ gResult = <<>>
    /\ gClick = <<>>

\* generateGraph runs on the configuration and sets the nodes and the edges.
RunGenerateGraph ==
    /\ gResult = <<>>
    /\ gResult' = <<BuildGraph(gInput)>>
    /\ UNCHANGED <<gInput, gClick>>
    /\ UNCHANGED <<sessionVars, integrityVars, previewVars, chatVars>>

NextGraph == RunGenerateGraph

SpecGraph == InitGraph /\ [][NextGraph]_vars

-----------------------------------------------------------------------------
(* Properties of generateGraph (specification SpecGraph) *)

\* The ids of the nodes of a graph.
NodeIds(graph) == {graph.nodes[i].id : i \in 1..Len(graph.nodes)}

\* C17 - For every configuration that passes checkIntegrity, every edge of
\* the graph has a source id and a target id that are ids of nodes of the
\* same graph.
ReferentialSoundness ==
    (gResult # <<>> /\ CheckIntegrity(AsConfig(gInput)) = {}) =>
        \A k \in 1..Len(gResult[1].edges) :
            /\ gResult[1].edges[k].source \in NodeIds(gResult[1])
            /\ gResult[1].edges[k].target \in NodeIds(gResult[1])

\* C17 witness: the graph of a configuration that passes the check and has
\* a sub-agent edge, a tool edge and a cycle between two agents.
ReferentialSoundnessWitness ==
    /\ gResult # <<>>
    /\ CheckIntegrity(AsConfig(gInput)) = {}
    /\ \E k \in 1..Len(gResult[1].edges) : gResult[1].edges[k].label = "uses"
    /\ \E k \in 1..Len(gResult[1].edges) :
          /\ gResult[1].edges[k].source = "agent-a"
          /\ gResult[1].edges[k].target = "agent-root"
    /\ \E k \in 1..Len(gResult[1].edges) :
          /\ gResult[1].edges[k].source = "agent-root"
          /\ gResult[1].edges[k].target = "agent-a"

\* The configuration with main agent root and the agents in map order
\* root, a, b, c, d.
IsRootFirstOfFive(cfg) ==
    /\ cfg.main_agent = "root"
    /\ [i \in 1..Len(cfg.agents) |-> cfg.agents[i][1]] = <<"root", "a", "b", "c", "d">>

\* The place of the node with the given id, when the graph has one.
PlacedAt(graph, id, x, y) ==
    \E i \in 1..Len(graph.nodes) :
        /\ graph.nodes[i].id = id
        /\ graph.nodes[i].x = x
        /\ graph.nodes[i].y = y

\* C18 as stated - With main_agent = root and the agents in map order root,
\* a, b, c, d, agent-a is placed at (200, 200), agent-b at (500, 200),
\* agent-c at (800, 200) and agent-d at (200, 350): the grid slot of a
\* non-main agent is its index among the non-main agents.
LayoutByNonMainIndex ==
    (gResult # <<>> /\ IsRootFirstOfFive(gInput)) =>
        /\ PlacedAt(gResult[1], "agent-a", 200, 200)
        /\ PlacedAt(gResult[1], "agent-b", 500, 200)
        /\ PlacedAt(gResult[1], "agent-c", 800, 200)
        /\ PlacedAt(gResult[1], "agent-d", 200, 350)

\* C18 - With main_agent = root and the agents in map order root, a, b, c,
\* d, agent-a is placed at (500, 200), agent-b at (800, 200), agent-c at
\* (200, 350) and agent-d at (500, 350): the grid slot of a non-main agent
\* is its index among all the agents, the main agent counted, so the slot of
\* the main agent's index stays empty.
LayoutByMapIndex ==
    /\ (gResult # <<>> /\ IsRootFirstOfFive(gInput)) =>
          /\ PlacedAt(gResult[1], "agent-a", 500, 200)
          /\ PlacedAt(gResult[1], "agent-b", 800, 200)
          /\ PlacedAt(gResult[1], "agent-c", 200, 350)
          /\ PlacedAt(gResult[1], "agent-d", 500, 350)
          /\ ~PlacedAt(gResult[1], "agent-a", 200, 200)
    /\ gResult # <<>> =>
          \A i \in 1..Len(gInput.agents) :
              gInput.agents[i][1] # gInput.main_agent =>
                  PlacedAt(gResult[1], "agent-" \o gInput.agents[i][1],
                           200 + ((i - 1) % 3) * 300, 200 + ((i - 1) \div 3) * 150)

\* C18 witness: the graph of the configuration with main agent root and the
\* agents in map order root, a, b, c, d.
LayoutWitness ==
    /\ gResult # <<>>
    /\ IsRootFirstOfFive(gInput)
    /\ Len(gResult[1].nodes) >= 5

\* The positions <<i, k>> of the entries of the agents' lists, by field.
RefPositions(cfg, field) ==
    UNION {{<<i, k>> : k \in 1..Len(cfg.agents[i][2][field])} : i \in 1..Len(cfg.agents)}

\* The number of edges of a graph with the given source, target and label.
EdgeCount(graph, source, target, label) ==
    Cardinality({e \in 1..Len(graph.edges) :
        /\ graph.edges[e].source = source
        /\ graph.edges[e].target = target
        /\ graph.edges[e].label = label})

\* The number of entries of an agent's list, by field, that are the name.
EntryCount(cfg, i, field, name) ==
    Cardinality({k \in 1..Len(cfg.agents[i][2][field]) : cfg.agents[i][2][field][k] = name})

\* C19 - For every agent a the graph has exactly one sub-agent edge
\* agent-a -> agent-s for each entry s of a.sub_agents and exactly one tool
\* edge agent-a -> tool-t for each entry t of a.tools, and no other edge.
EdgeGeneration ==
    gResult # <<>> =>
        /\ \A p \in RefPositions(gInput, "sub_agents") :
              LET name == gInput.agents[p[1]][2].sub_agents[p[2]]
              IN  EdgeCount(gResult[1], "agent-" \o gInput.agents[p[1]][1],
                            "agent-" \o name, "sub-agent")
                  = EntryCount(gInput, p[1], "sub_agents", name)
        /\ \A p \in RefPositions(gInput, "tools") :
              LET name == gInput.agents[p[1]][2].tools[p[2]]
              IN  EdgeCount(gResult[1], "agent-" \o gInput.agents[p[1]][1],
                            "tool-" \o name, "uses")
                  = EntryCount(gInput, p[1], "tools", name)
        /\ Len(gResult[1].edges)
              = Cardinality(RefPositions(gInput, "sub_agents"))
                + Cardinality(RefPositions(gInput, "tools"))

\* C19 witness: the graph of a configuration in which root lists the
\* sub-agent a and the tool search once each and no other agent lists
\* anything; its edges are agent-root -> agent-a and agent-root -> tool-search.
EdgeGenerationWitness ==
    /\ gResult # <<>>
    /\ RefPositions(gInput, "sub_agents") = {<<1, 1>>}
    /\ RefPositions(gInput, "tools") = {<<1, 1>>}
    /\ gResult[1].edges =
          <<SubAgentEdge("root", "a"), ToolEdge("root", "search")>>

\* C20 - For a configuration in which an agent lists a sub-agent or tool
\* name that is no key, generateGraph still sets a graph with a node for
\* every agent and tool, and the edge to the absent target id is in it
\* although no node has that id.
DanglingTolerance ==
    /\ gResult = <<>> => ENABLED RunGenerateGraph
    /\ gResult # <<>> =>
          /\ Len(gResult[1].nodes) = Len(gInput.agents) + Len(gInput.tools)
          /\ \A p \in RefPositions(gInput, "sub_agents") :
                LET name == gInput.agents[p[1]][2].sub_agents[p[2]]
                IN  name \notin Keys(gInput.agents) =>
                      /\ "agent-" \o name \notin NodeIds(gResult[1])
                      /\ EdgeCount(gResult[1], "agent-" \o gInput.agents[p[1]][1],
                                   "agent-" \o name, "sub-agent") >= 1
          /\ \A p \in RefPositions(gInput, "tools") :
                LET name == gInput.agents[p[1]][2].tools[p[2]]
                IN  name \notin Keys(gInput.tools) =>
                      /\ "tool-" \o name \notin NodeIds(gResult[1])
                      /\ EdgeCount(gResult[1], "agent-" \o gInput.agents[p[1]][1],
                                   "tool-" \o name, "uses") >= 1

\* C20 witness: the graph of a configuration in which root lists a
\* sub-agent and a tool that are no keys; both edges are in the graph.
DanglingToleranceWitness ==
    /\ gResult # <<>>
    /\ \E p \in RefPositions(gInput, "sub_agents") :
          gInput.agents[p[1]][2].sub_agents[p[2]] \notin Keys(gInput.agents)
    /\ \E p \in RefPositions(gInput, "tools") :
          gInput.agents[p[1]][2].tools[p[2]] \notin Keys(gInput.tools)
    /\ \E e \in 1..Len(gResult[1].edges) : gResult[1].edges[e].target = "agent-ghost"
    /\ \E e \in 1..Len(gResult[1].edges) : gResult[1].edges[e].target = "tool-nope"

\* C21 - No two nodes of the graph share an id: the node of the agent entry
\* with key n has id agent-n, the node of the tool entry with key n has id
\* tool-n, and an agent and a tool of the same name get different ids.
NodeIdsUnique ==
    gResult # <<>> =>
        /\ \A i, j \in 1..Len(gResult[1].nodes) :
              i # j => gResult[1].nodes[i].id # gResult[1].nodes[j].id
        /\ \A i \in 1..Len(gInput.agents) :
              gResult[1].nodes[i].id = "agent-" \o gInput.agents[i][1]
        /\ \A j \in 1..Len(gInput.tools) :
              gResult[1].nodes[Len(gInput.agents) + j].id = "tool-" \o gInput.tools[j][1]
        /\ Len(gResult[1].nodes) = Len(gInput.agents) + Len(gInput.tools)

\* C21 witness: the graph of a configuration with an agent and a tool that
\* are both named a.
NodeIdsUniqueWitness ==
    /\ gResult # <<>>
    /\ "a" \in Keys(gInput.agents) \cap Keys(gInput.tools)
    /\ {"agent-a", "tool-a"} \subseteq NodeIds(gResult[1])

\* The node of the graph made for the i-th agent entry.
NodeOfAgent(graph, i) == graph.nodes[i]

\* The node of the graph made for the j-th tool entry of the configuration.
NodeOfTool(cfg, graph, j) == graph.nodes[Len(cfg.agents) + j]

\* C23 - Every agent other than main_agent, at index i of the agents map's
\* iteration order (counted from 0 over all agents, the main agent
\* included), is placed at x = 200 + (i mod 3) * 300,
\* y = 200 + floor(i / 3) * 150.
NonMainAgentPlacement ==
    gResult # <<>> =>
        \A n \in 1..Len(gInput.agents) :
            gInput.agents[n][1] # gInput.main_agent =>
                /\ NodeOfAgent(gResult[1], n).x = 200 + ((n - 1) % 3) * 300
                /\ NodeOfAgent(gResult[1], n).y = 200 + ((n - 1) \div 3) * 150

\* C23 witness: the graph of a configuration whose main agent stands in the
\* middle of the map and is followed by an agent of the second grid row.
NonMainAgentPlacementWitness ==
    /\ gResult # <<>>
    /\ Len(gInput.agents) = 5
    /\ gInput.agents[4][1] = gInput.main_agent
    /\ NodeOfAgent(gResult[1], 5).x = 500
    /\ NodeOfAgent(gResult[1], 5).y = 350

\* C24 - The agent named by main_agent is placed at the anchor (400, 50)
\* whatever its index in the agents map, and no other agent is placed there.
MainAgentAtAnchor ==
    gResult # <<>> =>
        \A n \in 1..Len(gInput.agents) :
            (gInput.agents[n][1] = gInput.main_agent)
                <=> (/\ NodeOfAgent(gResult[1], n).x = 400
                     /\ NodeOfAgent(gResult[1], n).y = 50)

\* C24 witness: the graph of a configuration whose main agent is the last
\* of five agents.
MainAgentAtAnchorWitness ==
    /\ gResult # <<>>
    /\ Len(gInput.agents) = 5
    /\ gInput.agents[5][1] = gInput.main_agent
    /\ NodeOfAgent(gResult[1], 5).x = 400

\* C25 - Every tool at index j of the tools map's iteration order (counted
\* from 0) is placed at x = 100 + (j mod 4) * 200,
\* y = 400 + floor(j / 4) * 100, whatever the agents and the edges are.
ToolPlacement ==
    gResult # <<>> =>
        \A n \in 1..Len(gInput.tools) :
            /\ NodeOfTool(gInput, gResult[1], n).id = "tool-" \o gInput.tools[n][1]
            /\ NodeOfTool(gInput, gResult[1], n).x = 100 + ((n - 1) % 4) * 200
            /\ NodeOfTool(gInput, gResult[1], n).y = 400 + ((n - 1) \div 4) * 100

\* C25 witness: the graph of a configuration with five tools, the fifth in
\* the second grid row, and with agents that use tools and agents that
\* do not.
ToolPlacementWitness ==
    /\ gResult # <<>>
    /\ Len(gInput.tools) = 5
    /\ NodeOfTool(gInput, gResult[1], 5).y = 500
    /\ Len(gInput.agents) = 5
    /\ gResult[1].edges # <<>>

-----------------------------------------------------------------------------
(* The mounted AgentGraph: its effect runs generateGraph when the config    *)
(* prop is a new object, ReactFlow hands node clicks to onNodeClickHandler  *)
(* and node changes (a drag) to onNodesChange of useNodesState.             *)

\* The longest id, counted in pieces between '-', the model splits.
MaxSegments == 3

\* The pieces without '-' the names and ids of the model are made of.
NameAtoms == {"agent", "tool", "my", "root", "search"}

\* pieces.join("-")
RECURSIVE Join(_)
Join(pieces) ==
    IF Len(pieces) = 1 THEN pieces[1]
    ELSE pieces[1] \o "-" \o Join(Tail(pieces))

\* str.split("-"): the pieces between the '-' characters of the string.
Segments(str) ==
    CHOOSE pieces \in UNION {[1..k -> NameAtoms] : k \in 1..MaxSegments} :
        Join(pieces) = str

\* str.split("-", limit): the first limit pieces; the rest is dropped.
Split(str, limit) ==
    LET pieces == Segments(str)
    IN  SubSeq(pieces, 1, IF Len(pieces) < limit THEN Len(pieces) ELSE limit)

\* The configurations the mounted graph is given: agent root alone, with an
\* agent whose name contains '-', and with an agent named like the first
\* piece of that name; no tool, a tool, or a tool whose name contains '-'.
DisplayInputs ==
    {[main_agent |-> "root",
      agents |-> [i \in 1..Len(ao) |->
                    <<ao[i],
                      IF ao[i] = "root" THEN Agent("root", "p", rt, rs)
                      ELSE Agent(ao[i], "p", <<>>, <<>>)>>],
      tools |-> [j \in 1..Len(to) |-> <<to[j], Tool(to[j], "p", "builtin")>>]]
     : ao \in {<<"root">>, <<"root", "my-agent">>, <<"root", "my-agent", "my">>},
       to \in {<<>>, <<"search">>, <<"my-tool">>},
       rs \in {<<>>, <<"my-agent">>},
       rt \in {<<>>, <<"search">>}}

\* Where a drag can drop a node.
DragPositions == {[x |-> 0, y |-> 0], [x |-> 650, y |-> 275]}

InitDisplay ==
    /\ SessionIdle
    /\ IntegrityIdle
    /\ PreviewIdle
    /\ ChatIdle
    /\ gInput \in DisplayInputs
    /\ gResult = <<>>
    /\ gClick = <<>>

\* onNodeClickHandler: const [nodeType, nodeName] = node.id.split("-", 2);
\* onNodeClick(nodeName, nodeType).
OnNodeClickHandler(i) ==
    /\ gResult # <<>>
    /\ i \in 1..Len(gResult[1].nodes)
    /\ LET parts == Split(gResult[1].nodes[i].id, 2)
       IN  gClick' = <<[node |-> i, nodeType |-> parts[1], nodeName |-> parts[2]]>>
    /\ UNCHANGED <<gInput, gResult>>
    /\ UNCHANGED <<sessionVars, integrityVars, previewVars, chatVars>>

\* onNodesChange of useNodesState, for the position change of a drag: the
\* node is replaced by a copy at the new position.
OnNodesChange(i, position) ==
    /\ gResult # <<>>
    /\ i \in 1..Len(gResult[1].nodes)
    /\ gResult' = <<[gResult[1] EXCEPT !.nodes[i].x = position.x,
                                       !.nodes[i].y = position.y]>>
    /\ UNCHANGED <<gInput, gClick>>
    /\ UNCHANGED <<sessionVars, integrityVars, previewVars, chatVars>>

\* The parent renders with a new config object (a save replaced the entry
\* of the first agent): generateGraph is a new callback and the effect runs
\* it again.
ConfigPropChanges(text) ==
    /\ gResult # <<>>
    /\ gInput.agents[1][2].description # text
    /\ gInput' = [gInput EXCEPT !.agents[1][2].description = text]
    /\ gResult' = <<BuildGraph(gInput')>>
    /\ UNCHANGED gClick
    /\ UNCHANGED <<sessionVars, integrityVars, previewVars, chatVars>>

\* The indexes of the nodes ReactFlow shows.
ShownNodes == IF gResult = <<>> THEN {} ELSE 1..Len(gResult[1].nodes)

NodeClicked == \E i \in ShownNodes : OnNodeClickHandler(i)

NodeDragged == \E i \in ShownNodes, position \in DragPositions : OnNodesChange(i, position)

ConfigReplaced == \E text \in TextValues : ConfigPropChanges(text)

NextDisplay ==
    \/ RunGenerateGraph
    \/ NodeClicked
    \/ NodeDragged
    \/ ConfigReplaced

SpecDisplay == InitDisplay /\ [][NextDisplay]_vars

-----------------------------------------------------------------------------
(* Properties of the mounted AgentGraph (specification SpecDisplay) *)

\* The kind and the key of the entry the i-th node was made for.
EntityOfNode(cfg, i) ==
    IF i <= Len(cfg.agents)
    THEN [kind |-> "agent", name |-> cfg.agents[i][1]]
    ELSE [kind |-> "tool", name |-> cfg.tools[i - Len(cfg.agents)][1]]

\* The editing state the timer of handleNodeClick sets for a click handed
\* over by the graph, with the configuration the graph shows.
SelectionOfClick(click) ==
    SelectionOf([nodeId |-> click.nodeName, nodeType |-> click.nodeType,
                 config |-> AsConfig(gInput)], NoEditing)

\* C22 - Node id round trip (as claimed): for every agent or tool name n,
\* names containing '-' included, the click handler recovers from the id of
\* the node the kind and exactly the name n, and the click selects the
\* entity stored under n.
NodeIdRoundTrip ==
    gClick # <<>> =>
        /\ gClick[1].nodeType = EntityOfNode(gInput, gClick[1].node).kind
        /\ gClick[1].nodeName = EntityOfNode(gInput, gClick[1].node).name
        /\ SelectionOfClick(gClick[1]).id = EntityOfNode(gInput, gClick[1].node).name

\* C29 - Derived display (as claimed): whenever the graph has been
\* generated, the displayed nodes and edges are generateGraph of the
\* configuration the component holds.
DisplayIsDerived ==
    gResult # <<>> => gResult[1] = BuildGraph(gInput)

-----------------------------------------------------------------------------
(* Further properties of the editing session (specification Spec) *)

\* C26 - Draft is a copy of the current entry (as claimed): right after a
\* deferred selection opened a draft of (kind, id), the draft equals the
\* entry of the configuration for (kind, id) as it is then.
DraftIsCurrentEntry ==
    (last.op = "SelectionTimerFire" /\ HasDraft(editingState)) =>
        editingState.data[1] = EntryOf(config[1], editingState.type, editingState.id)

\* C27 - A field mutation replaces the draft by the shallow merge of the
\* previous draft with the changed fields: every changed field has its new
\* value, every other field keeps its value, kind and id are unchanged; and
\* no mutation step is taken without a draft.
FieldMutationMerges ==
    [][last'.op = "UpdateEditingData" =>
          /\ HasDraft(editingState) /\ HasDraft(editingState')
          /\ editingState'.type = editingState.type
          /\ editingState'.id = editingState.id
          /\ \E u \in FieldUpdates :
                /\ DOMAIN editingState'.data[1] = DOMAIN editingState.data[1] \cup DOMAIN u
                /\ \A f \in DOMAIN u : editingState'.data[1][f] = u[f]
                /\ \A f \in DOMAIN editingState.data[1] \ DOMAIN u :
                      editingState'.data[1][f] = editingState.data[1][f]]_vars

\* C27 witness: a field of an agent's draft was just changed; the draft has
\* a new description and still lists the agent's tools and sub-agents.
FieldMutationWitness ==
    /\ last.op = "UpdateEditingData"
    /\ HasDraft(editingState)
    /\ editingState.type = "agent"
    /\ editingState.data[1].description = "q"
    /\ editingState.data[1].tools # <<>>

\* C28 - A cancel clears the editing state, so the draft is gone, issues no
\* call to the store and leaves the configuration and the store unchanged.
CancelFrame ==
    [][last'.op = "HandleCancel" =>
          /\ HasDraft(editingState)
          /\ editingState' = NoEditing
          /\ UNCHANGED <<store, config, pendingSaves, saving, timers>>]_vars

\* C28 witness: a draft that had been changed was just cancelled while no
\* save was in flight; the configuration is still the one fetched.
CancelFrameWitness ==
    /\ last.op = "HandleCancel"
    /\ editingState = NoEditing
    /\ pendingSaves = <<>>
    /\ config = <<store>>

\* C30 - A successful save of (kind, id) replaces the full entity stored
\* under that name and nothing else: main_agent, the key sets of agents and
\* tools and every other entry of the configuration are unchanged.
SaveReplacesOneEntry ==
    [][last'.op = "SaveSuccess" =>
          LET sv == last'.save[1]
          IN  /\ config # <<>> /\ config' # <<>>
              /\ config'[1].main_agent = config[1].main_agent
              /\ DOMAIN config'[1] = DOMAIN config[1]
              /\ DOMAIN config'[1].agents = DOMAIN config[1].agents
              /\ DOMAIN config'[1].tools = DOMAIN config[1].tools
              /\ EntryOf(config'[1], sv.type, sv.id) = sv.data
              /\ \A e \in ClickableNodes(config[1]) \ {<<sv.id, sv.type>>} :
                    EntryOf(config'[1], e[2], e[1]) = EntryOf(config[1], e[2], e[1])]_vars

\* C30 witness: a save of a changed draft has succeeded after another entity
\* had been saved with a change before, so the configuration holds two
\* entries that differ from the ones fetched.
SaveReplacesOneEntryWitness ==
    /\ last.op = "SaveSuccess"
    /\ config # <<>>
    /\ Cardinality({e \in ClickableNodes(config[1]) :
            EntryOf(config[1], e[2], e[1]) # EntryOf(ValidConfig, e[2], e[1])
            /\ EntryOf(config[1], e[2], e[1]) # EntryOf(DanglingConfig, e[2], e[1])}) >= 2

-----------------------------------------------------------------------------
(* The editing session with a store that eventually answers every call *)

\* The store answers: some call in flight resolves or rejects.
StoreAnswers == SaveResolves \/ SaveRejects

\* The session starts from the store whose references all resolve.
InitAnswered == Init /\ store = ValidConfig

\* The steps of the session that bear on a save; Download Code, which reads
\* the configuration and writes only its own flag, is left unused.
NextAnswered ==
    \/ LoadConfigSuccess
    \/ LoadConfigFailure
    \/ NodeClick
    \/ SelectionTimerFire
    \/ HandleSave
    \/ SaveResolves
    \/ SaveRejects
    \/ HandleCancel
    \/ FieldEdit

SpecAnswered == InitAnswered /\ [][NextAnswered]_vars /\ WF_vars(StoreAnswers)

\* C31 - Every save in flight runs to completion or failure: with a store
\* that eventually answers, whenever the saving flag is set it is eventually
\* reset and the Save button enabled again; the flag is reset in the step in
\* which the call succeeds and in the step in which it fails alike.
SaveRunsToCompletion ==
    /\ saving ~> (~saving /\ SaveButtonEnabled /\ pendingSaves = <<>>)
    /\ [][last'.op \in {"SaveSuccess", "SaveFailure"} => (saving /\ ~saving')]_vars

\* C31 witness: a save has just failed, the draft is still open and Save can
\* be clicked again.
SaveRunsToCompletionWitness ==
    /\ last.op = "SaveFailure"
    /\ ~saving
    /\ ENABLED HandleSave

-----------------------------------------------------------------------------
(* Properties of the editing session under interleaved events *)

\* C32 - A completing save spares another entity's draft (as claimed): the
\* step in which a save of X succeeds leaves the editing state as it is
\* when that holds a draft of a different entity Y.
SaveSparesOtherDraft ==
    [][(/\ last'.op = "SaveSuccess"
        /\ HasDraft(editingState)
        /\ <<editingState.type, editingState.id>>
              # <<last'.save[1].type, last'.save[1].id>>)
          => editingState' = editingState]_vars

\* C33 - Cancel is final without a new click (as claimed): a timer that
\* fires right after a cancel, with no node click in between, opens no
\* draft.
CancelStaysIdle ==
    [][(last.op = "HandleCancel" /\ last'.op = "SelectionTimerFire")
          => ~HasDraft(editingState')]_vars

\* C34 - Store agreement: with a store that applies an update exactly when
\* it reports success, whenever no save is in flight the configuration held
\* equals the store: every agent entry, every tool entry and the main agent.
StoreAgreement ==
    (config # <<>> /\ pendingSaves = <<>>) =>
        /\ DOMAIN config[1].agents = DOMAIN store.agents
        /\ DOMAIN config[1].tools = DOMAIN store.tools
        /\ \A a \in DOMAIN store.agents : config[1].agents[a] = store.agents[a]
        /\ \A t \in DOMAIN store.tools : config[1].tools[t] = store.tools[t]
        /\ config[1].main_agent = store.main_agent

\* C34 witness: no save is in flight after one save of a changed draft
\* succeeded and a later save of another changed draft failed.
StoreAgreementWitness ==
    /\ last.op = "SaveFailure"
    /\ pendingSaves = <<>>
    /\ config # <<>>
    /\ config[1] \notin StoreConfigs
    /\ last.save[1].data # EntryOf(config[1], last.save[1].type, last.save[1].id)

\* The tools and sub_agents lists of every agent of a configuration.
References(cfg) ==
    [a \in DOMAIN cfg.agents |->
        [tools |-> cfg.agents[a].tools, sub_agents |-> cfg.agents[a].sub_agents]]

\* C35 - Saves preserve references: no step changes the tools or sub_agents
\* list of an agent or the key sets of agents and tools of the configuration
\* held, so its integrity violations stay the ones it had when fetched.
SavesPreserveReferences ==
    [][(config # <<>> /\ config' # <<>>) =>
          /\ References(config'[1]) = References(config[1])
          /\ DOMAIN config'[1].tools = DOMAIN config[1].tools
          /\ CheckIntegrity(config'[1]) = CheckIntegrity(config[1])]_vars

\* C35 witness: the fetched configuration passed the check and a save of a
\* changed agent has succeeded; the configuration still passes.
SavesPreserveReferencesWitness ==
    /\ last.op = "SaveSuccess"
    /\ last.save[1].type = "agent"
    /\ last.save[1].data # EntryOf(last.save[1].config, "agent", last.save[1].id)
    /\ CheckIntegrity(config[1]) = {}
    /\ References(config[1]) = References(ValidConfig)

-----------------------------------------------------------------------------
(* Further properties of generateGraph (specification SpecGraph) *)

\* C36 - No two nodes at one place (as claimed): any two distinct nodes of
\* the graph differ in x or in y.
NoTwoNodesAtOnePlace ==
    gResult # <<>> =>
        \A i, j \in 1..Len(gResult[1].nodes) :
            i # j => \/ gResult[1].nodes[i].x # gResult[1].nodes[j].x
                     \/ gResult[1].nodes[i].y # gResult[1].nodes[j].y

\* C37 - Edge ids are unique (as claimed): any two distinct edges of the
\* graph have different ids.
EdgeIdsUnique ==
    gResult # <<>> =>
        \A i, j \in 1..Len(gResult[1].edges) :
            i # j => gResult[1].edges[i].id # gResult[1].edges[j].id

-----------------------------------------------------------------------------
(* Further properties of AppPreview (specification SpecPreview) *)

\* C38 - In every reachable state exactly one of isBuilding and isComplete
\* is true, and isComplete is true only after the progress source has
\* reported 100.
BuildingXorComplete ==
    /\ appState.isBuilding # appState.isComplete
    /\ appState.isComplete => reports100 >= 1

\* C38 witness: the build has just become complete, by the timer of the one
\* report of 100.
BuildingXorCompleteWitness ==
    /\ previewLast.op = "SettleTimerFire"
    /\ appState.isComplete
    /\ reports100 = 1
    /\ completions = 1

-----------------------------------------------------------------------------
(* Home in its chat view: ChatInterface and AppPreview side by side.  Home  *)
(* passes handleFirstResponse, a function made anew by every render of      *)
(* Home, as onFirstResponse; the effect of ChatInterface that requests the  *)
(* initial response has the dependencies [initialMessage, onFirstResponse]. *)
(* The mock response source is taken to resolve every call.                 *)

\* Home has rendered the chat view once: ChatInterface is mounted with the
\* initial user message and its effect has not run yet.
InitHome ==
    /\ SessionIdle
    /\ IntegrityIdle
    /\ GraphIdle
    /\ PreviewIdle
    /\ chatMessages = <<"user">>
    /\ chatLoading = TRUE
    /\ homeRenders = 1
    /\ effectRanWith = 0
    /\ pendingInitial = 0
    /\ initialRequested = 0
    /\ firstResponseCalls = 0

\* The effect runs after a render in which a dependency changed (after the
\* first render always): handleInitialResponse calls
\* simulateAIResponse(initialMessage) and awaits it.
RunInitialResponseEffect ==
    /\ homeRenders > 0
    /\ effectRanWith # homeRenders
    /\ effectRanWith' = homeRenders
    /\ pendingInitial' = pendingInitial + 1
    /\ initialRequested' = initialRequested + 1
    /\ UNCHANGED <<chatMessages, chatLoading, homeRenders, firstResponseCalls>>
    /\ UNCHANGED <<sessionVars, integrityVars, graphVars, previewVars>>

\* An awaited initial response arrives: the assistant message is appended,
\* setIsLoading(false), onFirstResponse().  Home's handleFirstResponse calls
\* setShowPreview(true): when that changes the state Home renders again,
\* otherwise React bails out and nothing renders.
InitialResponseArrives ==
    /\ pendingInitial > 0
    /\ pendingInitial' = pendingInitial - 1
    /\ chatMessages' = Append(chatMessages, "assistant")
    /\ chatLoading' = FALSE
    /\ firstResponseCalls' = firstResponseCalls + 1
    /\ IF isVisible
       THEN UNCHANGED <<previewVars, homeRenders>>
       ELSE ShowPreviewEffect /\ homeRenders' = homeRenders + 1
    /\ UNCHANGED <<effectRanWith, initialRequested>>
    /\ UNCHANGED <<sessionVars, integrityVars, graphVars>>

NextHome ==
    \/ RunInitialResponseEffect
    \/ InitialResponseArrives
    \/ ProgressReported
    \/ SettleTimerFire
    \/ HandlePreviewDownload
    \/ PreviewDownloadSuccess
    \/ PreviewDownloadFailure

SpecHome == InitHome /\ [][NextHome]_vars

\* The number of assistant messages shown.
AssistantMessages ==
    Cardinality({i \in 1..Len(chatMessages) : chatMessages[i] = "assistant"})

\* C39 - One initial response (as claimed): for the initial user message at
\* most one response is requested, at most one assistant message is
\* appended and onFirstResponse is called at most once, also after the
\* render of Home that showing the preview causes.
OneInitialResponse ==
    /\ initialRequested <= 1
    /\ AssistantMessages <= 1
    /\ firstResponseCalls <= 1

====
